---- MODULE Spec2Model ----
(***************************************************************************)
(* Contract-read hooks of starknet-react (packages/core/src/hooks):        *)
(* useContract, queryKey, readContract, useContractRead and useBalance.    *)
(*                                                                         *)
(* Encoding of JavaScript values                                           *)
(*   - an optional string is a string, "undefined" when absent; the empty  *)
(*     string "" is a present but falsy string;                            *)
(*   - an optional object or array x is Some(x) = <<x>>, Undefined = <<>>  *)
(*     when absent (so the empty argument list [] is Some(<<>>)).          *)
(***************************************************************************)
EXTENDS Integers, Sequences, FiniteSets, TLC

VARIABLES
    k1, k2,          \* the inputs of two useContractRead renders
    key1, key2,      \* the keys queryKey built from k1 and k2
    fArgs,           \* the ReadContractArgs captured by the fetcher's closure
    fPc,             \* position of the async fetcher: "built", "awaiting", "settled"
    fResult,         \* how the fetcher's promise settled
    fCalls,          \* calls made to the contract function by the current invocation
    fLastCall,       \* the last call made to the contract function
    fChain,          \* what the chain client answered to the last call
    bBalance,        \* data of the balanceOf query seen by a useBalance render
    bSymbol,         \* data of the symbol query seen by that render
    bDecimals,       \* the decimals argument of that render
    bData,           \* the data memo that render computed
    mounted,         \* per hook instance: whether it is mounted
    props,           \* per hook instance: the arguments of its last render
    memo,            \* per hook instance: its useMemo cells for the query keys
    cache,           \* the query engine's cache: query key -> entry
    invalidator,     \* per hook instance: "idle" or "watching"
    unsubscribed,    \* the hook instances whose invalidator stopped watching
    lastIssued,      \* the invalidations issued by the step taken, if a notification
    lastRefetch,     \* the sub-reads triggered by the step taken, if a refetch()
    cSymbol,         \* what useQuery returned for the symbol sub-read to a useBalance render
    cBalance,        \* what useQuery returned for the balanceOf sub-read to that render
    cResult          \* the status fields that render returned

keyVars == <<k1, k2, key1, key2>>
fetchVars == <<fArgs, fPc, fResult, fCalls, fLastCall, fChain>>
fmtVars == <<bBalance, bSymbol, bDecimals, bData>>
hookVars ==
    <<mounted, props, memo, cache, invalidator, unsubscribed, lastIssued, lastRefetch>>
combineVars == <<cSymbol, cBalance, cResult>>
vars == <<keyVars, fetchVars, fmtVars, hookVars, combineVars>>

(***************************************************************************)
(* JavaScript values                                                       *)
(***************************************************************************)
Undefined == <<>>
Some(x) == <<x>>
Get(o) == o[1]

\* Truthiness of an optional string: undefined and '' are falsy.
TruthyStr(s) == s \notin {"undefined", ""}
\* Truthiness of an optional object or array: every object is truthy, [] included.
TruthyObj(o) == o # Undefined

(***************************************************************************)
(* Input domains                                                           *)
(***************************************************************************)
ChainIds == {"SN_MAIN", "SN_GOERLI"}
Libraries == [chainId : ChainIds]
Addresses == {"0xT1", "0xT2"}
Accounts == {"0xACC"}
\* An ABI is the set of the function names it declares.
ABI_BALANCE_FRAGMENT == {"balanceOf", "symbol"}
ABI_OTHER == {"symbol", "decimals"}
Abis == {ABI_BALANCE_FRAGMENT, ABI_OTHER}
FunctionNames == {"balanceOf", "symbol", "address"}
BlockIdentifiers == {"pending", "latest"}
ArgLists == {<<>>, <<"0xACC">>, <<"undefined">>}

(***************************************************************************)
(* useContract                                                             *)
(***************************************************************************)
\* new Contract(abi, address, library)
Contract(abi, address, library) ==
    [abi |-> abi, address |-> address, providerOrAccount |-> library]

\* useContract: the memoized binding, for optional abi, address and library.
UseContract(abi, address, library) ==
    IF TruthyObj(abi) /\ TruthyStr(address) /\ TruthyObj(library)
    THEN Some(Contract(Get(abi), address, Get(library)))
    ELSE Undefined

\* contract[name]: a callable for a function of the ABI, the address string
\* for "address", undefined otherwise.
ContractMember(contract, name) ==
    IF name \in contract.abi THEN "function"
    ELSE IF name = "address" THEN "string"
    ELSE "undefined"

(***************************************************************************)
(* queryKey                                                                *)
(***************************************************************************)
\* contract?.address
ContractAddress(contract) ==
    IF contract = Undefined THEN "undefined" ELSE Get(contract).address

queryKeyMutant(library, args) ==
    << [entity |-> "readContract",
        chainId |-> library.chainId,
        contract |-> ContractAddress(args.contract),
        functionName |-> args.functionName,
        args |-> args.args,
        blockIdentifier |-> "pending"] >>
queryKey(library, args) ==
    << [entity |-> "readContract",
        chainId |-> library.chainId,
        contract |-> ContractAddress(args.contract),
        functionName |-> args.functionName,
        args |-> args.args,
        blockIdentifier |-> args.blockIdentifier] >>

\* ReadContractArgs: { contract?, functionName?, args?, blockIdentifier }
OptAbis == {Undefined} \cup {Some(a) : a \in Abis}
OptAddresses == Addresses \cup {"undefined", ""}
OptFunctionNames == FunctionNames \cup {"undefined", ""}
OptArgLists == {Undefined} \cup {Some(l) : l \in ArgLists}

(***************************************************************************)
(* readContract: the async fetcher handed to useQuery                      *)
(***************************************************************************)
\* if (!args.args || !args.contract || !args.functionName) return null
Incomplete(args) ==
    \/ ~TruthyObj(args.args)
    \/ ~TruthyObj(args.contract)
    \/ ~TruthyStr(args.functionName)

\* const call = args.contract && args.functionName && args.contract[args.functionName]
CallOf(args) == ContractMember(Get(args.contract), args.functionName)

\* call(...args.args, { blockIdentifier: args.blockIdentifier })
CallRecordMutant(args) ==
    [fn |-> args.functionName,
     positional |-> Get(args.args),
     options |-> [blockIdentifier |-> "pending"]]
CallRecord(args) ==
    [fn |-> args.functionName,
     positional |-> Get(args.args),
     options |-> [blockIdentifier |-> args.blockIdentifier]]

\* What one run of the fetcher's body does up to its first return, throw or
\* await: "null" (return null), "TypeError" (call is not a function) or
\* "call" (the contract function is called and awaited).
FetcherStep(args) ==
    IF Incomplete(args) THEN "null"
    ELSE IF CallOf(args) = "undefined" THEN "null"
    ELSE IF CallOf(args) = "function" THEN "call"
    ELSE "TypeError"

NoCall == [fn |-> "undefined", positional |-> <<>>, options |-> [blockIdentifier |-> "undefined"]]
NoResult == [kind |-> "none", value |-> "undefined"]
ChainResults == {"result1", "result2"}
ChainErrors == {"RpcError", "RevertError"}

(***************************************************************************)
(* Numbers.  An unsigned integer of any size is the sequence of its        *)
(* decimal digits, most significant first, without leading zeros (<<0>>    *)
(* for zero).  A string is the sequence of its characters.                 *)
(***************************************************************************)
RECURSIVE StripLeading(_)
StripLeading(d) == IF Len(d) > 1 /\ d[1] = 0 THEN StripLeading(Tail(d)) ELSE d

RECURSIVE StripTrailing(_)
StripTrailing(d) ==
    IF Len(d) > 1 /\ d[Len(d)] = 0 THEN StripTrailing(SubSeq(d, 1, Len(d) - 1)) ELSE d

Zeros(n) == [i \in 1..n |-> 0]
PadLeft(d, n) == Zeros(n - Len(d)) \o d
MaxOf(a, b) == IF a >= b THEN a ELSE b

\* The sequence f as an explicit tuple.
Tuple(f) == <<>> \o f

\* a + b, digit by digit: a carry enters position i when some lower position j
\* produces one and every position between them passes it on.
AddPadded(a, b, n) ==
    LET carry(i) ==
            IF \E j \in (i + 1)..n :
                   /\ a[j] + b[j] >= 10
                   /\ \A l \in (i + 1)..(j - 1) : a[l] + b[l] = 9
            THEN 1 ELSE 0
    IN  Tuple([i \in 1..(n + 1) |->
                  IF i = 1 THEN carry(0) ELSE (a[i - 1] + b[i - 1] + carry(i - 1)) % 10])

Add(a, b) ==
    LET n == MaxOf(Len(a), Len(b))
    IN  StripLeading(AddPadded(PadLeft(a, n), PadLeft(b, n), n))

\* a times the digit c
RECURSIVE MulDigit(_, _)
MulDigit(a, c) == IF c = 0 THEN <<0>> ELSE Add(MulDigit(a, c - 1), a)

\* a times the number of the first i digits of b
RECURSIVE MulRec(_, _, _)
MulRec(a, b, i) ==
    IF i = 0 THEN <<0>>
    ELSE Add(StripLeading(MulRec(a, b, i - 1) \o <<0>>), MulDigit(a, b[i]))

Mul(a, b) == MulRec(a, b, Len(b))

\* The integer part of d / 2: the remainder carried into a digit is the parity
\* of the digit before it.
Half(d) ==
    StripLeading(Tuple([i \in 1..Len(d) |->
        ((IF i > 1 THEN d[i - 1] % 2 ELSE 0) * 10 + d[i]) \div 2]))
Odd(d) == d[Len(d)] % 2 = 1

Less(a, b) ==
    \/ Len(a) < Len(b)
    \/ /\ Len(a) = Len(b)
       /\ \E i \in 1..Len(a) :
            /\ a[i] < b[i]
            /\ \A j \in 1..(i - 1) : a[j] = b[j]

TwoPow53 == <<9,0,0,7,1,9,9,2,5,4,7,4,0,9,9,2>>

\* d * 2^k and the integer part of d / 2^k
RECURSIVE ShiftLeft(_, _)
ShiftLeft(d, k) ==
    IF k = 0 THEN d ELSE CHOOSE r \in {Add(h, h) : h \in {ShiftLeft(d, k - 1)}} : TRUE

RECURSIVE ShiftRight(_, _)
ShiftRight(d, k) ==
    IF k = 0 THEN d ELSE CHOOSE r \in {Half(h) : h \in {ShiftRight(d, k - 1)}} : TRUE

\* The number of low bits a double drops from d: the least k with d / 2^k < 2^53.
RECURSIVE DroppedBits(_, _)
DroppedBits(d, k) ==
    IF Less(ShiftRight(d, k), TwoPow53) THEN k ELSE DroppedBits(d, k + 1)

TwoPow54 == Add(TwoPow53, TwoPow53)
TwoPow128 ==
    <<3,4,0,2,8,2,3,6,6,9,2,0,9,3,8,4,6,3,4,6,3,3,7,4,6,0,7,4,3,1,7,6,8,2,1,1,4,5,6>>

DigitChars == <<"0", "1", "2", "3", "4", "5", "6", "7", "8", "9">>
Chr(n) == DigitChars[n + 1]
Val(c) == CHOOSE n \in 0..9 : DigitChars[n + 1] = c

\* uint256.uint256ToBN({ low, high }): high * 2^128 + low
Uint256ToBN(u) == Add(Mul(TwoPow128, u.high), u.low)

\* BN.toString(): the decimal digits as characters
BNToString(bn) == [i \in 1..Len(bn) |-> Chr(bn[i])]

\* The double nearest to an unsigned integer n, ties to the even significand:
\* with k bits dropped and q the 53-bit significand below n, the neighbours
\* are q * 2^k and (q + 1) * 2^k.  The double is an integer, given by its digits.
ToDouble(n) ==
    LET k == DroppedBits(n, 0)
        q == ShiftRight(n, k)
        lo == ShiftLeft(q, k)
        hi == ShiftLeft(Add(q, <<1>>), k)
        twice == Add(n, n)
        mid == Add(lo, hi)
    IN  IF k = 0 THEN n
        ELSE IF Less(twice, mid) THEN lo
        ELSE IF Less(mid, twice) THEN hi
        ELSE IF Odd(q) THEN hi ELSE lo

\* Number(str) for a string of decimal digits
NumberOf(str) == ToDouble(StripLeading([i \in 1..Len(str) |-> Val(str[i])]))

RECURSIVE IntChars(_)
IntChars(x) == IF x < 10 THEN <<Chr(x)>> ELSE IntChars(x \div 10) \o <<Chr(x % 10)>>

\* Number::toString of the double with shortest round-trip digits s (no
\* trailing zero) and decimal exponent n, the value being 0.s * 10^n.
NumberToString(s, n) ==
    LET k == Len(s)
        c == [i \in 1..k |-> Chr(s[i])]
        e == n - 1
    IN  IF s = <<0>> THEN <<"0">>
        ELSE IF k <= n /\ n <= 21 THEN c \o [i \in 1..(n - k) |-> "0"]
        ELSE IF 0 < n /\ n <= 21 THEN SubSeq(c, 1, n) \o <<".">> \o SubSeq(c, n + 1, k)
        ELSE IF -6 < n /\ n <= 0 THEN <<"0", ".">> \o [i \in 1..(0 - n) |-> "0"] \o c
        ELSE (IF k = 1 THEN c ELSE <<c[1], ".">> \o SubSeq(c, 2, k))
             \o <<"e", IF e < 0 THEN "-" ELSE "+">>
             \o IntChars(IF e < 0 THEN 0 - e ELSE e)

\* (x / 10 ** decimals).toString() for an integer-valued double x.  The
\* division of two exactly represented doubles is correctly rounded, so the
\* shortest round-trip digits of the quotient are the significant digits of x
\* whenever x has at most 15 of them, or decimals = 0 and x < 2^54.
DivPow10ToString(x, decimals) ==
    NumberToString(StripTrailing(x), Len(x) - decimals)

\* Inputs on which DivPow10ToString is exact.
InFormatDomain(v, decimals) ==
    LET x == ToDouble(v)
    IN  /\ decimals <= 22
        /\ \/ Len(StripTrailing(x)) <= 15
           \/ decimals = 0 /\ Less(x, TwoPow54)

\* const formatted = (Number(asBN.toString()) / 10 ** decimals).toString()
Formatted(asBN, decimals) == DivPow10ToString(NumberOf(BNToString(asBN)), decimals)

\* shortString.decodeShortString: the ASCII text a felt encodes
DecodeShortString(felt) ==
    CASE felt = "0x455448" -> "ETH"
      [] felt = "0x444149" -> "DAI"
      [] OTHER -> "?"

\* The positional decimal expansion of v / 10^decimals: the integer part, and
\* after a point the fraction without trailing zeros, if it is not zero.
DecimalExpansion(v, decimals) ==
    LET p == PadLeft(v, MaxOf(Len(v), decimals + 1))
        int == SubSeq(p, 1, Len(p) - decimals)
        frac == SubSeq(p, Len(p) - decimals + 1, Len(p))
        f == IF frac = <<>> THEN <<>> ELSE StripTrailing(frac)
        chars(d) == [i \in 1..Len(d) |-> Chr(d[i])]
    IN  IF f = <<>> \/ f = <<0>> THEN chars(int) ELSE chars(int) \o <<".">> \o chars(f)

(***************************************************************************)
(* Query data and the data memo of useBalance                              *)
(***************************************************************************)
\* The data of a query: undefined until a fetch succeeded, null when the
\* fetcher returned null, else the object the contract call returned.
DataUndefined == [type |-> "undefined"]
DataNull == [type |-> "null"]
DataObject(fields) == [type |-> "object", fields |-> fields]
TruthyData(d) == d.type = "object"

\* What balanceOf and symbol return under ABI_BALANCE_FRAGMENT, and an object
\* that lacks the named output.
BalanceObject(low, high) == DataObject([balance |-> [low |-> low, high |-> high]])
SymbolObject(felt) == DataObject([symbol |-> felt])
OtherObject == DataObject([other |-> "0x0"])
HasField(d, name) == name \in DOMAIN d.fields

ETH_DECIMALS == 18

\* useMemo(() => { ... }, [balanceQuery, symbolQuery]) of useBalance.  Reading
\* .low of an undefined balance, or decoding an undefined symbol, throws.
BalanceDataMutant(balanceData, symbolData, decimals) ==
    IF ~TruthyData(balanceData) THEN [kind |-> "undefined"]
    ELSE IF ~HasField(balanceData, "balance") THEN [kind |-> "throw"]
    ELSE LET asBN == Uint256ToBN(balanceData.fields.balance)
         IN  [kind |-> "data",
              decimals |-> decimals,
              formatted |-> Formatted(asBN, decimals),
              symbol |-> IF TruthyData(symbolData) /\ HasField(symbolData, "symbol")
                         THEN DecodeShortString(symbolData.fields.symbol)
                         ELSE "undefined",
              value |-> asBN]
BalanceData(balanceData, symbolData, decimals) ==
    IF ~TruthyData(symbolData) \/ ~TruthyData(balanceData) THEN [kind |-> "undefined"]
    ELSE IF ~HasField(balanceData, "balance") \/ ~HasField(symbolData, "symbol")
    THEN [kind |-> "throw"]
    ELSE LET asBN == Uint256ToBN(balanceData.fields.balance)
         IN  [kind |-> "data",
              decimals |-> decimals,
              formatted |-> Formatted(asBN, decimals),
              symbol |-> DecodeShortString(symbolData.fields.symbol),
              value |-> asBN]

(***************************************************************************)
(* useContractRead: arguments and key of a render                          *)
(***************************************************************************)
KeyInputs ==
    [library : Libraries,
     abi : {Some(a) : a \in Abis},
     address : Addresses \cup {"undefined"},
     functionName : {"balanceOf", "symbol"},
     args : {Undefined, Some(<<>>), Some(<<"0xACC">>)},
     blockIdentifier : BlockIdentifiers]

KeyFieldValues(f) == {i[f] : i \in KeyInputs}

\* The ReadContractArgs a render of useContractRead builds from its inputs.
ReadArgsOf(i) ==
    [contract |-> UseContract(i.abi, i.address, Some(i.library)),
     functionName |-> i.functionName,
     args |-> i.args,
     blockIdentifier |-> i.blockIdentifier]

\* const queryKey_ = useMemo(() => queryKey({ library, args: {...} }), [...])
UseContractReadKey(i) == queryKey(i.library, ReadArgsOf(i))

KeyInput0 ==
    [library |-> [chainId |-> "SN_MAIN"], abi |-> Some(ABI_BALANCE_FRAGMENT),
     address |-> "undefined", functionName |-> "symbol", args |-> Undefined,
     blockIdentifier |-> "pending"]


(***************************************************************************)
(* The hook instances: one useContractRead ("read"), one useBalance ("bal")*)
(***************************************************************************)
Callers == {"read", "bal"}

\* const { library } = useStarknet()
Library == [chainId |-> "SN_MAIN"]

\* The arguments of useContractRead, with the defaults watch = false and
\* blockIdentifier = 'pending'.
ReadProps0 ==
    [library |-> Library, abi |-> Some(ABI_BALANCE_FRAGMENT), address |-> "undefined",
     functionName |-> "symbol", args |-> Some(<<>>), watch |-> FALSE,
     blockIdentifier |-> "pending"]
ReadPropValues(f) ==
    CASE f = "address" -> {"undefined", "0xT1"}
      [] f = "watch" -> BOOLEAN
      [] OTHER -> {ReadProps0[f]}

\* The arguments of useBalance, with the defaults decimals = ETH_DECIMALS,
\* watch = false and blockIdentifier = 'pending'.
BalanceProps0 ==
    [library |-> Library, address |-> "0xACC", token |-> "undefined",
     decimals |-> ETH_DECIMALS, watch |-> FALSE, blockIdentifier |-> "pending"]
BalancePropValues(f) ==
    CASE f = "token" -> {"undefined", "0xT1"}
      [] f = "address" -> {"undefined", "0xACC"}
      [] f = "watch" -> BOOLEAN
      [] OTHER -> {BalanceProps0[f]}

PropValues(c, f) == IF c = "read" THEN ReadPropValues(f) ELSE BalancePropValues(f)

\* constants.StarknetChainId and the chain useNetwork() gives, if any.
StarknetChainIds == {"SN_MAIN", "SN_GOERLI", "SN_GOERLI2"}
TESTNET == "SN_GOERLI"
Chains == {Undefined} \cup {Some([id |-> ch]) : ch \in StarknetChainIds}
Chain == Some([id |-> Library.chainId])

\* const ETH_ADDRESS = { [MAINNET]: '', [TESTNET]: '', [TESTNET2]: '' }
ETH_ADDRESSMutant == [ch \in StarknetChainIds |-> IF ch = "SN_MAIN" THEN "0xT1" ELSE ""]
ETH_ADDRESS == [ch \in StarknetChainIds |-> ""]

\* const defaultToken = ETH_ADDRESS[chain?.id || constants.StarknetChainId.TESTNET]
DefaultTokenOf(chain) ==
    LET id == IF chain # Undefined /\ TruthyStr(Get(chain).id) THEN Get(chain).id ELSE TESTNET
    IN  IF id \in DOMAIN ETH_ADDRESS THEN ETH_ADDRESS[id] ELSE "undefined"
DefaultToken == DefaultTokenOf(Chain)

\* useContract({ abi: ABI_BALANCE_FRAGMENT, address: token || defaultToken })
BalanceContract(p) ==
    UseContract(Some(ABI_BALANCE_FRAGMENT),
                IF TruthyStr(p.token) THEN p.token ELSE DefaultToken,
                Some(p.library))

\* const readContractArgs = { balanceOf: [address], symbol: [] }
BalanceCallArgs(p, fn) == IF fn = "balanceOf" THEN Some(<<p.address>>) ELSE Some(<<>>)

\* The ReadContractArgs of the two sub-reads of useBalance.
BalanceArgsOf(p, fn) ==
    [contract |-> BalanceContract(p),
     functionName |-> fn,
     args |-> BalanceCallArgs(p, fn),
     blockIdentifier |-> p.blockIdentifier]

\* The queries of a hook instance and the ReadContractArgs of each.
Queries(c) == IF c = "read" THEN {"read"} ELSE {"balanceOf", "symbol"}
ArgsOf(c, q, p) == IF c = "read" THEN ReadArgsOf(p) ELSE BalanceArgsOf(p, q)

\* The dependency list of the useMemo that holds the key of query q.
MemoDepsMutant(c, q, p) == <<p.library, Some(p.blockIdentifier)>>
MemoDeps(c, q, p) ==
    IF c = "read"
    THEN <<p.library, ReadArgsOf(p).contract, Some(p.functionName), p.args,
           Some(p.blockIdentifier)>>
    ELSE <<p.library, BalanceContract(p), Some(p.address), Some(p.blockIdentifier)>>

\* useMemo: the cell is computed again when a dependency changed.
NoMemo == [deps |-> <<>>, value |-> <<>>]
UseMemo(cell, deps, value) ==
    IF cell.deps = deps THEN cell ELSE [deps |-> deps, value |-> value]

\* The memo cells of a render of c with arguments p, given the cells before.
RenderMemo(c, p, cells) ==
    [q \in Queries(c) |->
        UseMemo(cells[q], MemoDeps(c, q, p), queryKey(p.library, ArgsOf(c, q, p)))]
NoMemos(c) == [q \in Queries(c) |-> NoMemo]

\* Every key a hook instance can hold.
AllKeys ==
    {queryKey(Library, ReadArgsOf([ReadProps0 EXCEPT !.address = a])) :
        a \in ReadPropValues("address")}
    \cup
    {queryKey(Library, BalanceArgsOf([BalanceProps0 EXCEPT !.token = t, !.address = a], fn)) :
        t \in BalancePropValues("token"), a \in BalancePropValues("address"),
        fn \in {"balanceOf", "symbol"}}

(***************************************************************************)
(* The query engine (useQuery, refetch, invalidateQueries), by its         *)
(* interface: an entry per key with status, data, error, the fetch in      *)
(* flight and the invalidated mark.                                        *)
(***************************************************************************)
NoEntry ==
    [status |-> "absent", data |-> DataUndefined, error |-> "null",
     inflight |-> "none", stale |-> FALSE]
NewEntry ==
    [status |-> "loading", data |-> DataUndefined, error |-> "null",
     inflight |-> "none", stale |-> FALSE]

\* The engine invokes the fetcher readContract({ args }) built by the render:
\* the entry is fetching, and loading again if it never had data.  A fetch
\* asked for while one is in flight for an entry without data joins it.
StartFetch(e, args) ==
    IF e.inflight # "none" /\ e.data = DataUndefined THEN e
    ELSE [e EXCEPT !.inflight = FetcherStep(args),
                   !.status = IF e.data = DataUndefined THEN "loading" ELSE e.status,
                   !.error = IF e.data = DataUndefined THEN "null" ELSE e.error]

\* useQuery(key, fetcher) of a render: a new observer creates the entry and
\* fetches unless a fetch is in flight.
Observe(e, args) ==
    IF e.status = "absent" THEN StartFetch(NewEntry, args)
    ELSE IF e.inflight # "none" THEN e
    ELSE StartFetch(e, args)

\* What the contract functions of ABI_BALANCE_FRAGMENT can answer: the
\* declared output, or an object of another shape.
GoodBalance == BalanceObject(<<1,5>> \o Zeros(14), <<0>>)
ResultsOf(fn) ==
    IF fn = "balanceOf" THEN {GoodBalance, OtherObject}
    ELSE {SymbolObject("0x455448")}

\* The keys a mounted hook instance observes, from its memo cells.
KeysOf(ms, c) == {ms[c][q].value : q \in Queries(c)}
Observed(mt, ms, key) == \E c \in Callers : mt[c] /\ key \in KeysOf(ms, c)

\* Entries nobody observes are collected.
Collect(ch, mt, ms) ==
    [key \in AllKeys |-> IF Observed(mt, ms, key) THEN ch[key] ELSE NoEntry]

(***************************************************************************)
(* useInvalidateOnBlock({ enabled, queryKey })                             *)
(***************************************************************************)
\* A key is valid when its descriptor is complete.
KeyValid(key) ==
    /\ key # <<>>
    /\ TruthyStr(key[1].contract)
    /\ TruthyStr(key[1].functionName)
    /\ TruthyObj(key[1].args)

\* The invalidator watches while its caller is mounted, enabled is true and
\* the key is valid.
InvalidatorState(isMounted, enabled, key) ==
    IF isMounted /\ enabled /\ KeyValid(key) THEN "watching" ELSE "idle"

\* On a new-block notification a watching invalidator asks the engine once to
\* invalidate the entries whose key has entity "readContract".
OnBlock(c, state) ==
    IF state = "watching" THEN <<[by |-> c, entity |-> "readContract"]>> ELSE <<>>

\* invalidateQueries: the matching entries are marked, the observed ones are
\* fetched again.
Matches(instr, key) == key[1].entity = instr.entity

\* The call sites: useInvalidateOnBlock({ enabled: watch, queryKey: queryKey_ })
\* and useInvalidateOnBlock({ enabled: watch, queryKey: balanceQueryKey_ }).
InvalidateEnabledMutant(c, p) == TRUE
InvalidateEnabled(c, p) == p.watch
InvalidateKeyMutant(c, cells) == <<>>
InvalidateKey(c, cells) == IF c = "read" THEN cells["read"].value ELSE cells["balanceOf"].value

\* refetch: () => { symbolQuery.refetch(); balanceQuery.refetch() }
BalanceRefetchMutant == <<"symbol">>
BalanceRefetch == <<"symbol", "balanceOf">>

(***************************************************************************)
(* useBalance: the status fields it returns, combined from the results of  *)
(* its two queries                                                         *)
(***************************************************************************)
\* The results useQuery can return, by their independent fields: the status,
\* the error (null unless the status is "error"), and the flags the status
\* does not decide.
QueryStates ==
    {r \in [status : {"loading", "error", "success"},
            error : {"null"} \cup ChainErrors,
            isStale : BOOLEAN,
            isFetching : BOOLEAN,
            isFetched : BOOLEAN,
            isFetchedAfterMount : BOOLEAN] :
        /\ (r.status = "error") <=> (r.error # "null")
        /\ r.status # "loading" => r.isFetched
        /\ r.isFetchedAfterMount => r.isFetched}

\* The result object of a state: the flags derived from the status.
UseQueryResult(r) ==
    [status |-> r.status,
     error |-> r.error,
     isStale |-> r.isStale,
     isLoading |-> r.status = "loading",
     isFetching |-> r.isFetching,
     isSuccess |-> r.status = "success",
     isError |-> r.status = "error",
     isFetched |-> r.isFetched,
     isFetchedAfterMount |-> r.isFetchedAfterMount,
     isRefetching |-> r.isFetching /\ r.status # "loading"]

QueryResults == {UseQueryResult(r) : r \in QueryStates}

\* Truthiness of a field of a query result: a null error is falsy, a status
\* is a non-empty string, a flag is itself.
TruthyField(key, v) ==
    CASE key = "error" -> v # "null"
      [] key = "status" -> v # ""
      [] OTHER -> v

\* a ?? undefined
NullishUndefined(a) == IF a = "null" THEN "undefined" ELSE a

\* function combineQueryStates(key) { return symbolQuery[key] || balanceQuery[key] }
combineQueryStatesMutant(symbolQ, balanceQ, key) == symbolQ[key]
combineQueryStates(symbolQ, balanceQ, key) ==
    IF TruthyField(key, symbolQ[key]) THEN symbolQ[key] ELSE balanceQ[key]

\* The status fields of the object useBalance returns.
UseBalanceStates(symbolQ, balanceQ) ==
    [error |-> NullishUndefined(combineQueryStates(symbolQ, balanceQ, "error")),
     isIdle |-> combineQueryStates(symbolQ, balanceQ, "isStale"),
     isLoading |-> combineQueryStates(symbolQ, balanceQ, "isLoading"),
     isFetching |-> combineQueryStates(symbolQ, balanceQ, "isFetching"),
     isSuccess |-> combineQueryStates(symbolQ, balanceQ, "isSuccess"),
     isError |-> combineQueryStates(symbolQ, balanceQ, "isError"),
     isFetched |-> combineQueryStates(symbolQ, balanceQ, "isFetched"),
     isFetchedAfterMount |-> combineQueryStates(symbolQ, balanceQ, "isFetchedAfterMount"),
     isRefetching |-> combineQueryStates(symbolQ, balanceQ, "isRefetching"),
     status |-> combineQueryStates(symbolQ, balanceQ, "status")]

\* A query that has not fetched yet.
QueryResult0 ==
    UseQueryResult([status |-> "loading", error |-> "null", isStale |-> TRUE,
                    isFetching |-> FALSE, isFetched |-> FALSE,
                    isFetchedAfterMount |-> FALSE])

(***************************************************************************)
(* The idle state of each part                                             *)
(***************************************************************************)
CombineIdle ==
    /\ cSymbol = QueryResult0
    /\ cBalance = QueryResult0
    /\ cResult = UseBalanceStates(QueryResult0, QueryResult0)

KeyIdle ==
    /\ k1 = KeyInput0
    /\ k2 = KeyInput0
    /\ key1 = UseContractReadKey(KeyInput0)
    /\ key2 = UseContractReadKey(KeyInput0)

FetchIdle ==
    /\ fArgs = ReadArgsOf(KeyInput0)
    /\ fPc = "built"
    /\ fResult = NoResult
    /\ fCalls = 0
    /\ fLastCall = NoCall
    /\ fChain = NoResult

NoRefetch == <<>>

HooksIdle ==
    /\ mounted = [c \in Callers |-> FALSE]
    /\ props = [c \in Callers |-> IF c = "read" THEN ReadProps0 ELSE BalanceProps0]
    /\ memo = [c \in Callers |-> NoMemos(c)]
    /\ cache = [key \in AllKeys |-> NoEntry]
    /\ invalidator = [c \in Callers |-> "idle"]
    /\ unsubscribed = {}
    /\ lastIssued = <<>>
    /\ lastRefetch = NoRefetch

FormatIdle ==
    /\ bBalance = DataUndefined
    /\ bSymbol = DataUndefined
    /\ bDecimals = ETH_DECIMALS
    /\ bData = BalanceData(DataUndefined, DataUndefined, ETH_DECIMALS)


(***************************************************************************)
(* Specification SpecKey: queryKey on two sets of hook inputs              *)
(***************************************************************************)
InitKey == KeyIdle /\ FetchIdle /\ FormatIdle /\ HooksIdle /\ CombineIdle

\* A render with one input changed: the key memo is computed again.
RenderFirst ==
    \E f \in DOMAIN k1 : \E v \in KeyFieldValues(f) :
        /\ k1' = [k1 EXCEPT ![f] = v]
        /\ key1' = UseContractReadKey(k1')
        /\ UNCHANGED <<k2, key2, fetchVars, fmtVars, hookVars, combineVars>>

RenderSecond ==
    \E f \in DOMAIN k2 : \E v \in KeyFieldValues(f) :
        /\ k2' = [k2 EXCEPT ![f] = v]
        /\ key2' = UseContractReadKey(k2')
        /\ UNCHANGED <<k1, key1, fetchVars, fmtVars, hookVars, combineVars>>

NextKey == RenderFirst \/ RenderSecond

SpecKey == InitKey /\ [][NextKey]_vars

\* The call descriptor of a render: chain id, address of the bound contract
\* (absent while there is no binding), function name, arguments, block selector.
Descriptor(i) ==
    <<i.library.chainId,
      IF TruthyStr(i.address) THEN i.address ELSE "undefined",
      i.functionName, i.args, i.blockIdentifier>>

\* C1: queryKey is a function of the call descriptor and is injective on it:
\* two renders have structurally equal keys exactly when they have the same
\* chain id, contract address, function name, argument list and block selector.
C1_KeyInjective ==
    /\ key1 = UseContractReadKey(k1)
    /\ key2 = UseContractReadKey(k2)
    /\ (Descriptor(k1) = Descriptor(k2)) <=> (key1 = key2)
    /\ key1[1].entity = "readContract"

\* Two renders that differ only in the ABI share a key; two that differ only in
\* the block selector do not.
C1_Witness ==
    /\ k1.abi # k2.abi /\ TruthyStr(k1.address) /\ Descriptor(k1) = Descriptor(k2)
    /\ key1 = key2

(***************************************************************************)
(* Specification SpecFetch: one fetcher, built and invoked                 *)
(***************************************************************************)
InitFetch == KeyIdle /\ FetchIdle /\ FormatIdle /\ HooksIdle /\ CombineIdle

\* readContract({ args }): a render builds a new fetcher over its arguments.
ReadContract ==
    /\ fPc \in {"built", "settled"}
    /\ \E abi \in OptAbis, address \in OptAddresses,
          library \in {Undefined, Some([chainId |-> "SN_MAIN"])},
          functionName \in OptFunctionNames, args \in OptArgLists,
          blockIdentifier \in BlockIdentifiers :
            fArgs' = [contract |-> UseContract(abi, address, library),
                      functionName |-> functionName,
                      args |-> args,
                      blockIdentifier |-> blockIdentifier]
    /\ fPc' = "built"
    /\ fResult' = NoResult
    /\ fCalls' = 0
    /\ fLastCall' = NoCall
    /\ fChain' = NoResult
    /\ UNCHANGED <<keyVars, fmtVars, hookVars, combineVars>>

\* The query engine invokes the fetcher: its body runs up to the first return,
\* throw or await.
InvokeFetcher ==
    /\ fPc \in {"built", "settled"}
    /\ fChain' = NoResult
    /\ CASE FetcherStep(fArgs) = "null" ->
              /\ fPc' = "settled"
              /\ fResult' = [kind |-> "resolved", value |-> "null"]
              /\ fCalls' = 0
              /\ UNCHANGED fLastCall
         [] FetcherStep(fArgs) = "TypeError" ->
              /\ fPc' = "settled"
              /\ fResult' = [kind |-> "rejected", value |-> "TypeError"]
              /\ fCalls' = 0
              /\ UNCHANGED fLastCall
         [] FetcherStep(fArgs) = "call" ->
              /\ fPc' = "awaiting"
              /\ fResult' = NoResult
              /\ fCalls' = 1
              /\ fLastCall' = CallRecord(fArgs)
    /\ UNCHANGED <<fArgs, keyVars, fmtVars, hookVars, combineVars>>

\* The awaited call resolves: return await call(...)
ChainResolve ==
    /\ fPc = "awaiting"
    /\ \E r \in ChainResults :
        /\ fChain' = [kind |-> "resolved", value |-> r]
        /\ fResult' = [kind |-> "resolved", value |-> r]
    /\ fPc' = "settled"
    /\ UNCHANGED <<fArgs, fCalls, fLastCall, keyVars, fmtVars, hookVars, combineVars>>

\* The awaited call rejects (transport error, revert): the fetcher's promise
\* rejects with the same error.
ChainReject ==
    /\ fPc = "awaiting"
    /\ \E e \in ChainErrors :
        /\ fChain' = [kind |-> "rejected", value |-> e]
        /\ fResult' = [kind |-> "rejected", value |-> e]
    /\ fPc' = "settled"
    /\ UNCHANGED <<fArgs, fCalls, fLastCall, keyVars, fmtVars, hookVars, combineVars>>

NextFetch == ReadContract \/ InvokeFetcher \/ ChainResolve \/ ChainReject

SpecFetch == InitFetch /\ [][NextFetch]_vars

\* The descriptor names a function the contract exposes.
Callable(args) == ~Incomplete(args) /\ CallOf(args) = "function"

\* C2: whenever the contract, the function name or the argument list is
\* absent, or the contract exposes no function of that name, an invocation of
\* the fetcher resolves to null, calls nothing and raises no error.
C2_NoCallUnlessCallable ==
    (fPc # "built" /\ ~Callable(fArgs)) =>
        /\ fPc = "settled"
        /\ fResult = [kind |-> "resolved", value |-> "null"]
        /\ fCalls = 0

\* C9: an invocation on a complete, callable descriptor calls the named
\* function exactly once, with the positional arguments followed by the block
\* selector; it settles as the call settled, and a failed call is not retried.
C9_OneCallUnmodified ==
    (fPc # "built" /\ Callable(fArgs)) =>
        /\ fCalls = 1
        /\ fLastCall.fn = fArgs.functionName
        /\ fLastCall.positional = Get(fArgs.args)
        /\ fLastCall.options = [blockIdentifier |-> fArgs.blockIdentifier]
        /\ (fPc = "settled") <=> (fChain.kind # "none")
        /\ fPc = "settled" => fResult = fChain

C9_Witness ==
    /\ fPc = "settled" /\ Callable(fArgs)
    /\ fResult.kind = "rejected"
    /\ fArgs.blockIdentifier = "latest"
    /\ fLastCall.positional = <<"0xACC">>

(***************************************************************************)
(* Specification SpecFormat: the data memo on resolved sub-reads           *)
(***************************************************************************)
MaxDigits == 2

SmallValues ==
    UNION {{d \in [1..n -> 0..9] : n = 1 \/ d[1] # 0} : n \in 1..MaxDigits}
LargeValues ==
    {<<1,5>> \o Zeros(17),
     <<1,2,3,4,5,6,7,8,9,0,1,2,3,4,5>>,
     TwoPow53,
     Add(TwoPow53, <<1>>),
     Add(TwoPow53, <<3>>)}
DecimalsValues == {0, 1, 7, ETH_DECIMALS}
FormatInputs ==
    {p \in (SmallValues \cup LargeValues) \X DecimalsValues : InFormatDomain(p[1], p[2])}
SymbolFelts == {"0x455448", "0x444149"}

InitFormat == KeyIdle /\ FetchIdle /\ FormatIdle /\ HooksIdle /\ CombineIdle

\* The balanceOf sub-read resolved to a new balance: the memo is computed again.
BalanceResolved ==
    \E p \in FormatInputs :
        /\ p[2] = bDecimals
        /\ bBalance' = BalanceObject(p[1], <<0>>)
        /\ bData' = BalanceData(bBalance', bSymbol, bDecimals)
        /\ UNCHANGED <<bSymbol, bDecimals, keyVars, fetchVars, hookVars, combineVars>>

\* The symbol sub-read resolved.
SymbolResolved ==
    \E felt \in SymbolFelts :
        /\ bSymbol' = SymbolObject(felt)
        /\ bData' = BalanceData(bBalance, bSymbol', bDecimals)
        /\ UNCHANGED <<bBalance, bDecimals, keyVars, fetchVars, hookVars, combineVars>>

\* The caller passes another decimals argument.
DecimalsChanged ==
    \E d \in DecimalsValues :
        /\ bBalance.type = "object" => <<bBalance.fields.balance.low, d>> \in FormatInputs
        /\ bDecimals' = d
        /\ bData' = BalanceData(bBalance, bSymbol, bDecimals')
        /\ UNCHANGED <<bBalance, bSymbol, keyVars, fetchVars, hookVars, combineVars>>

NextFormat == BalanceResolved \/ SymbolResolved \/ DecimalsChanged

SpecFormat == InitFormat /\ [][NextFormat]_vars

\* The integer a two-limb uint256 stands for.
LimbsValue(u) == Add(Mul(TwoPow128, u.high), u.low)

\* The same number in the exponent notation Number::toString uses outside
\* [1e-6, 1e21).
ScientificExpansion(v, decimals) == NumberToString(StripTrailing(v), Len(v) - decimals)

\* C8: formatted is the decimal expansion of V / 10^D (written positionally or
\* with an exponent) and value is V, for the integer V of the balance limbs
\* and D = decimals.
C8_FormattedIsExpansion ==
    bData.kind = "data" =>
        LET V == LimbsValue(bBalance.fields.balance)
        IN  /\ bData.formatted \in
                  {DecimalExpansion(V, bDecimals), ScientificExpansion(V, bDecimals)}
            /\ bData.value = V

\* The documented example: V = 1500000000000000000, D = 18 gives "1.5".
FormatExample ==
    (bData.kind = "data" /\ bDecimals = ETH_DECIMALS
        /\ bBalance.fields.balance.low = <<1,5>> \o Zeros(17)) =>
            bData.formatted = <<"1", ".", "5">>

(***************************************************************************)
(* Specification Spec: the two hook instances, the query engine and the    *)
(* new-block notifications of the provider                                 *)
(***************************************************************************)
Init == KeyIdle /\ FetchIdle /\ FormatIdle /\ HooksIdle /\ CombineIdle

\* The ReadContractArgs of an observer of key: the fetcher the engine invokes.
ObserverArgs(key) ==
    LET o == CHOOSE w \in {<<c, q>> : c \in Callers, q \in {"read", "balanceOf", "symbol"}} :
                 /\ w[2] \in Queries(w[1])
                 /\ mounted[w[1]]
                 /\ memo[w[1]][w[2]].value = key
    IN  ArgsOf(o[1], o[2], props[o[1]])

\* The invalidator of c takes the state its effect computed; one that was
\* watching and no longer is has released its subscription.
Subscription(c, state) ==
    /\ invalidator' = [invalidator EXCEPT ![c] = state]
    /\ unsubscribed' =
          IF state = "watching" THEN unsubscribed \ {c}
          ELSE IF invalidator[c] = "watching" THEN unsubscribed \cup {c}
          ELSE unsubscribed

\* A render of hook instance c with arguments p: the key memos, the useQuery
\* observers (an observer that moves to another key leaves the old entry) and
\* useInvalidateOnBlock.
Render(c, p, cells) ==
    LET cells2 == RenderMemo(c, p, cells)
        memo2 == [memo EXCEPT ![c] = cells2]
        mounted2 == [mounted EXCEPT ![c] = TRUE]
        moved(key) == \E q \in Queries(c) : cells2[q].value = key /\ cells[q].value # key
        argsFor(key) == ArgsOf(c, CHOOSE q \in Queries(c) : cells2[q].value = key, p)
        cache2 == [key \in AllKeys |->
                      IF moved(key) THEN Observe(cache[key], argsFor(key)) ELSE cache[key]]
    IN  /\ props' = [props EXCEPT ![c] = p]
        /\ memo' = memo2
        /\ mounted' = mounted2
        /\ cache' = Collect(cache2, mounted2, memo2)
        /\ Subscription(c, InvalidatorState(TRUE, InvalidateEnabled(c, p),
                                            InvalidateKey(c, cells2)))

Mount ==
    \E c \in Callers :
        /\ ~mounted[c]
        /\ Render(c, props[c], NoMemos(c))
        /\ lastIssued' = <<>>
        /\ lastRefetch' = NoRefetch
        /\ UNCHANGED <<keyVars, fetchVars, fmtVars, combineVars>>

\* The caller renders again with one argument changed.
SetProps ==
    \E c \in Callers :
        /\ mounted[c]
        /\ \E f \in DOMAIN props[c] : \E v \in PropValues(c, f) :
            /\ v # props[c][f]
            /\ Render(c, [props[c] EXCEPT ![f] = v], memo[c])
        /\ lastIssued' = <<>>
        /\ lastRefetch' = NoRefetch
        /\ UNCHANGED <<keyVars, fetchVars, fmtVars, combineVars>>

\* Teardown: the observers and the block subscription are released.
Unmount ==
    \E c \in Callers :
        /\ mounted[c]
        /\ mounted' = [mounted EXCEPT ![c] = FALSE]
        /\ memo' = [memo EXCEPT ![c] = NoMemos(c)]
        /\ cache' = Collect(cache, mounted', memo')
        /\ Subscription(c, InvalidatorState(FALSE, InvalidateEnabled(c, props[c]), <<>>))
        /\ lastIssued' = <<>>
        /\ lastRefetch' = NoRefetch
        /\ UNCHANGED <<props, keyVars, fetchVars, fmtVars, combineVars>>

\* The provider notifies a new block: every watching invalidator issues its
\* invalidation, and the engine marks and fetches the matching entries.
NewBlock ==
    /\ LET issued == OnBlock("read", invalidator["read"]) \o OnBlock("bal", invalidator["bal"])
           hit(key) == \E i \in 1..Len(issued) : Matches(issued[i], key)
       IN  /\ lastIssued' = issued
           /\ cache' = [key \in AllKeys |->
                          IF cache[key].status # "absent" /\ hit(key)
                          THEN StartFetch([cache[key] EXCEPT !.stale = TRUE], ObserverArgs(key))
                          ELSE cache[key]]
    /\ lastRefetch' = NoRefetch
    /\ UNCHANGED <<mounted, props, memo, invalidator, unsubscribed,
                   keyVars, fetchVars, fmtVars, combineVars>>

\* The fetcher's promise resolves: with null when it made no call, else with
\* what the contract function answered.
FetchSuccess ==
    \E key \in AllKeys :
        /\ cache[key].inflight \in {"null", "call"}
        /\ \E r \in IF cache[key].inflight = "null" THEN {DataNull}
                    ELSE ResultsOf(key[1].functionName) :
              cache' = [cache EXCEPT ![key] =
                           [status |-> "success", data |-> r, error |-> "null",
                            inflight |-> "none", stale |-> FALSE]]
        /\ lastIssued' = <<>>
        /\ lastRefetch' = NoRefetch
        /\ UNCHANGED <<mounted, props, memo, invalidator, unsubscribed,
                       keyVars, fetchVars, fmtVars, combineVars>>

\* The fetcher's promise rejects: the entry keeps its data and takes the error.
FetchError ==
    \E key \in AllKeys :
        /\ cache[key].inflight \in {"call", "TypeError"}
        /\ \E e \in IF cache[key].inflight = "call" THEN ChainErrors ELSE {"TypeError"} :
              cache' = [cache EXCEPT ![key] =
                           [@ EXCEPT !.status = "error", !.error = e, !.inflight = "none"]]
        /\ lastIssued' = <<>>
        /\ lastRefetch' = NoRefetch
        /\ UNCHANGED <<mounted, props, memo, invalidator, unsubscribed,
                       keyVars, fetchVars, fmtVars, combineVars>>

\* useContractRead's refetch is the query's refetch.
ReadRefetch ==
    /\ mounted["read"]
    /\ LET key == memo["read"]["read"].value
       IN  cache' = [cache EXCEPT ![key] = StartFetch(@, ArgsOf("read", "read", props["read"]))]
    /\ lastIssued' = <<>>
    /\ lastRefetch' = NoRefetch
    /\ UNCHANGED <<mounted, props, memo, invalidator, unsubscribed,
                   keyVars, fetchVars, fmtVars, combineVars>>

\* The refetch() that useBalance returns.
Refetch ==
    /\ mounted["bal"]
    /\ LET keyOf(q) == memo["bal"][q].value
           triggered(q) == \E i \in 1..Len(BalanceRefetch) : BalanceRefetch[i] = q
       IN  /\ cache' = [key \in AllKeys |->
                          IF \E q \in Queries("bal") : keyOf(q) = key /\ triggered(q)
                          THEN StartFetch(cache[key],
                                   ArgsOf("bal", CHOOSE q \in Queries("bal") : keyOf(q) = key,
                                          props["bal"]))
                          ELSE cache[key]]
           /\ lastRefetch' = BalanceRefetch
    /\ lastIssued' = <<>>
    /\ UNCHANGED <<mounted, props, memo, invalidator, unsubscribed,
                   keyVars, fetchVars, fmtVars, combineVars>>

Next ==
    \/ Mount \/ SetProps \/ Unmount \/ NewBlock
    \/ FetchSuccess \/ FetchError \/ ReadRefetch \/ Refetch

Spec == Init /\ [][Next]_vars

(***************************************************************************)
(* What the hooks return                                                   *)
(***************************************************************************)
\* The result object of useQuery for an entry.
QueryResult(e) ==
    [data |-> e.data,
     error |-> e.error,
     status |-> e.status,
     isLoading |-> e.status = "loading",
     isFetching |-> e.inflight # "none",
     isSuccess |-> e.status = "success",
     isError |-> e.status = "error",
     isRefetching |-> e.inflight # "none" /\ e.status # "loading"]

balanceQuery == QueryResult(cache[memo["bal"]["balanceOf"].value])
symbolQuery == QueryResult(cache[memo["bal"]["symbol"].value])

\* function combineQueryStates(key) { return symbolQuery[key] || balanceQuery[key] }
CombinedError == combineQueryStates(symbolQuery, balanceQuery, "error")

\* The value a render of useBalance returns, or that it threw.
UseBalanceData == BalanceData(balanceQuery.data, symbolQuery.data, props["bal"].decimals)
UseBalanceResult ==
    LET data == UseBalanceData
    IN  IF data.kind = "throw" THEN [threw |-> TRUE]
        ELSE [threw |-> FALSE,
              data |-> data,
              error |-> NullishUndefined(CombinedError),
              isLoading |-> combineQueryStates(symbolQuery, balanceQuery, "isLoading"),
              isFetching |-> combineQueryStates(symbolQuery, balanceQuery, "isFetching"),
              isSuccess |-> combineQueryStates(symbolQuery, balanceQuery, "isSuccess"),
              isError |-> combineQueryStates(symbolQuery, balanceQuery, "isError")]

\* The value a render of useContractRead returns.
UseContractReadResult ==
    LET q == QueryResult(cache[memo["read"]["read"].value])
    IN  [threw |-> FALSE,
         data |-> q.data,
         error |-> NullishUndefined(q.error),
         isLoading |-> q.isLoading,
         isFetching |-> q.isFetching,
         isSuccess |-> q.isSuccess,
         isError |-> q.isError]


(***************************************************************************)
(* Properties of Spec                                                      *)
(***************************************************************************)
\* The key each hook instance hands to useInvalidateOnBlock.
WatchedKey(c) == memo[c][IF c = "read" THEN "read" ELSE "balanceOf"].value
Issued(seq, c) == {i \in 1..Len(seq) : seq[i].by = c}
BothHeld == TruthyData(balanceQuery.data) /\ TruthyData(symbolQuery.data)
BothShaped ==
    /\ BothHeld
    /\ HasField(balanceQuery.data, "balance")
    /\ HasField(symbolQuery.data, "symbol")

\* C3, as the spec states it: the combined data of useBalance is present
\* exactly when both sub-reads have resolved, and absent when either is
\* pending or errored.
C3_DataIffBothResolved ==
    mounted["bal"] =>
        /\ UseBalanceData.kind = "data" <=> (balanceQuery.isSuccess /\ symbolQuery.isSuccess)
        /\ (balanceQuery.isError \/ symbolQuery.isError \/ balanceQuery.isLoading
            \/ symbolQuery.isLoading) => UseBalanceData.kind = "undefined"

\* C3, amended: the combined data of useBalance is absent whenever either
\* sub-read holds no data (never resolved, or resolved to null), is present
\* whenever both hold data of the declared shape, whatever their status, and
\* when present carries all four fields.
C3_DataIffBothHeld ==
    mounted["bal"] =>
        LET data == UseBalanceData
        IN  /\ ~BothHeld => data.kind = "undefined"
            /\ BothShaped => data.kind = "data"
            /\ data.kind = "data" =>
                  /\ BothShaped
                  /\ data.value = Uint256ToBN(balanceQuery.data.fields.balance)
                  /\ data.decimals = props["bal"].decimals
                  /\ data.symbol # "undefined"
                  /\ data.formatted # "undefined"
C3_Witness ==
    /\ mounted["bal"]
    /\ UseBalanceData.kind = "data"
    /\ balanceQuery.isSuccess /\ symbolQuery.isSuccess

C6_WatchingIffEnabledAndValid ==
    \A c \in Callers :
        invalidator[c] = "watching"
            <=> (mounted[c] /\ props[c].watch /\ KeyValid(WatchedKey(c)))
C6_Witness ==
    /\ "bal" \in unsubscribed
    /\ mounted["bal"] /\ props["bal"].watch
    /\ ~KeyValid(WatchedKey("bal"))
    /\ invalidator["bal"] = "idle"

\* C7: a call of the refetch() that useBalance returns triggers the balanceOf
\* sub-read once and the symbol sub-read once, and leaves both fetching,
\* whatever state the two entries were in.
C7_RefetchTriggersBothOnce ==
    lastRefetch # NoRefetch =>
        /\ \A q \in Queries("bal") :
              Cardinality({i \in 1..Len(lastRefetch) : lastRefetch[i] = q}) = 1
        /\ Len(lastRefetch) = 2
        /\ balanceQuery.isFetching /\ symbolQuery.isFetching
C7_Witness ==
    /\ lastRefetch # NoRefetch
    /\ balanceQuery.isError /\ balanceQuery.isFetching
    /\ symbolQuery.isSuccess /\ symbolQuery.isFetching

\* C10: no render of useContractRead or useBalance throws, and the error
\* field is the error of a failed sub-read, unchanged, and absent when no
\* sub-read has failed.
C10_FailuresOnlyInErrorField ==
    /\ mounted["read"] =>
          /\ ~UseContractReadResult.threw
          /\ UseContractReadResult.error =
                NullishUndefined(cache[memo["read"]["read"].value].error)
    /\ mounted["bal"] =>
          /\ ~UseBalanceResult.threw
          /\ UseBalanceResult.error \in
                {NullishUndefined(symbolQuery.error), NullishUndefined(balanceQuery.error)}
          /\ (symbolQuery.error = "null" /\ balanceQuery.error = "null")
                => UseBalanceResult.error = "undefined"


\* C11: while the account address is absent, useBalance dispatches no
\* balanceOf read: the fetcher of the balanceOf sub-read resolves to an empty
\* result without calling the contract.
C11_NoBalanceReadWithoutAddress ==
    (mounted["bal"] /\ ~TruthyStr(props["bal"].address)) =>
        /\ FetcherStep(BalanceArgsOf(props["bal"], "balanceOf")) = "null"
        /\ cache[memo["bal"]["balanceOf"].value].inflight \in {"none", "null"}

(***************************************************************************)
(* Specification SpecMemo: the key memos of the two hooks over renders     *)
(* that change the provider, the contract binding, the function name, the  *)
(* address or arguments and the block selector                             *)
(***************************************************************************)
\* The values a render can give each argument of a hook.
MemoPropValues(c, f) ==
    IF c = "read"
    THEN IF f = "watch" THEN {FALSE} ELSE KeyFieldValues(f)
    ELSE CASE f = "library" -> Libraries
           [] f = "address" -> Accounts \cup {"undefined"}
           [] f = "token" -> Addresses \cup {"undefined"}
           [] f = "blockIdentifier" -> BlockIdentifiers
           [] OTHER -> {BalanceProps0[f]}

InitMemo == KeyIdle /\ FetchIdle /\ FormatIdle /\ HooksIdle /\ CombineIdle

\* The first render of a hook instance: its memo cells are computed.
FirstRender ==
    \E c \in Callers :
        /\ ~mounted[c]
        /\ mounted' = [mounted EXCEPT ![c] = TRUE]
        /\ memo' = [memo EXCEPT ![c] = RenderMemo(c, props[c], NoMemos(c))]
        /\ UNCHANGED <<props, cache, invalidator, unsubscribed, lastIssued, lastRefetch,
                       keyVars, fetchVars, fmtVars, combineVars>>

\* A later render with one argument changed: each cell is kept or replaced
\* as its dependency list decides.
NextRender ==
    \E c \in Callers :
        /\ mounted[c]
        /\ \E f \in DOMAIN props[c] : \E v \in MemoPropValues(c, f) :
            /\ v # props[c][f]
            /\ props' = [props EXCEPT ![c] = [props[c] EXCEPT ![f] = v]]
            /\ memo' = [memo EXCEPT ![c] = RenderMemo(c, props'[c], memo[c])]
        /\ UNCHANGED <<mounted, cache, invalidator, unsubscribed, lastIssued, lastRefetch,
                       keyVars, fetchVars, fmtVars, combineVars>>

NextMemo == FirstRender \/ NextRender

SpecMemo == InitMemo /\ [][NextMemo]_vars

\* C12: after every render the key each hook holds in its memo is the key
\* queryKey computes from the current inputs, and the fetcher built by that
\* render reads the descriptor the key describes: same chain, contract
\* address, function name, arguments and block selector.
C12_MemoKeyIsCurrent ==
    \A c \in Callers : mounted[c] =>
        \A q \in Queries(c) :
            LET fetcherArgs == ArgsOf(c, q, props[c])
                key == memo[c][q].value
            IN  /\ key = queryKey(props[c].library, fetcherArgs)
                /\ key[1].chainId = props[c].library.chainId
                /\ key[1].contract = ContractAddress(fetcherArgs.contract)
                /\ key[1].functionName = fetcherArgs.functionName
                /\ key[1].args = fetcherArgs.args
                /\ key[1].blockIdentifier = fetcherArgs.blockIdentifier
C12_Witness ==
    /\ mounted["read"] /\ mounted["bal"]
    /\ props["read"].library.chainId = "SN_GOERLI"
    /\ props["read"].functionName = "balanceOf"
    /\ props["read"].address = "0xT2"
    /\ memo["read"]["read"].value[1].contract = "0xT2"
    /\ props["bal"].token = "0xT1"
    /\ props["bal"].address = "undefined"
    /\ props["bal"].blockIdentifier = "latest"
    /\ memo["bal"]["balanceOf"].value[1].args = Some(<<"undefined">>)

(***************************************************************************)
(* Specification SpecCombine: renders of useBalance over the results of    *)
(* its two queries                                                         *)
(***************************************************************************)
InitCombine == KeyIdle /\ FetchIdle /\ FormatIdle /\ HooksIdle /\ CombineIdle

\* The symbol query notifies a new result and useBalance renders.
SymbolQueryChanged ==
    /\ \E r \in QueryResults \ {cSymbol} :
        /\ cSymbol' = r
        /\ cResult' = UseBalanceStates(r, cBalance)
    /\ UNCHANGED <<cBalance, keyVars, fetchVars, fmtVars, hookVars>>

\* The balanceOf query notifies a new result and useBalance renders.
BalanceQueryChanged ==
    /\ \E r \in QueryResults \ {cBalance} :
        /\ cBalance' = r
        /\ cResult' = UseBalanceStates(cSymbol, r)
    /\ UNCHANGED <<cSymbol, keyVars, fetchVars, fmtVars, hookVars>>

NextCombine == SymbolQueryChanged \/ BalanceQueryChanged

SpecCombine == InitCombine /\ [][NextCombine]_vars

\* The combined flags and the flag of the sub-reads each is combined from.
CombinedFlags ==
    {<<"isIdle", "isStale">>, <<"isLoading", "isLoading">>, <<"isFetching", "isFetching">>,
     <<"isSuccess", "isSuccess">>, <<"isError", "isError">>, <<"isFetched", "isFetched">>,
     <<"isFetchedAfterMount", "isFetchedAfterMount">>, <<"isRefetching", "isRefetching">>}

\* C13: each combined flag of useBalance is true exactly when the flag is
\* true for at least one sub-read; the combined error is the symbol
\* sub-read's error if it has one, else the balanceOf sub-read's; the combined
\* status is the symbol sub-read's status.
C13_CombinedStates ==
    /\ \A f \in CombinedFlags : cResult[f[1]] <=> (cSymbol[f[2]] \/ cBalance[f[2]])
    /\ cResult.error =
          IF cSymbol.error # "null" THEN cSymbol.error
          ELSE IF cBalance.error # "null" THEN cBalance.error
          ELSE "undefined"
    /\ cResult.status = cSymbol.status
C13_Witness ==
    /\ cSymbol.status = "success" /\ ~cSymbol.isFetching
    /\ cBalance.status = "error" /\ cBalance.error = "RevertError" /\ cBalance.isFetching
    /\ cResult.status = "success"
    /\ cResult.isSuccess /\ cResult.isError /\ cResult.isRefetching
    /\ cResult.error = "RevertError"

\* C14: the default token address is empty for every known chain, so while
\* useBalance is given no token no contract is bound, neither sub-read calls
\* the chain client or holds anything but an empty result, and the combined
\* data is absent.
C14_NoTokenNoData ==
    /\ \A chain \in Chains : DefaultTokenOf(chain) = ""
    /\ (mounted["bal"] /\ ~TruthyStr(props["bal"].token)) =>
          /\ BalanceContract(props["bal"]) = Undefined
          /\ \A q \in Queries("bal") :
                LET e == cache[memo["bal"][q].value]
                IN  /\ e.inflight \in {"none", "null"}
                    /\ e.data \in {DataUndefined, DataNull}
                    /\ e.error = "null"
          /\ UseBalanceData.kind = "undefined"
C14_Witness ==
    /\ mounted["bal"] /\ ~TruthyStr(props["bal"].token)
    /\ "bal" \in unsubscribed
    /\ balanceQuery.isSuccess /\ balanceQuery.data = DataNull /\ ~balanceQuery.isFetching
    /\ symbolQuery.isSuccess /\ symbolQuery.data = DataNull /\ ~symbolQuery.isFetching

====
